---- MODULE Spec2Model ----
(***************************************************************************)
(* Plume-extent contour extraction of webviz-subsurface                    *)
(* (plugins/_co2_migration/_utilities/plume_extent.py).                    *)
(*                                                                         *)
(* One call of plume_polygons is a run of the state machine below: the     *)
(* initial state holds the arguments of the call and the module flag       *)
(* MISSING_DEPENDENCIES as the import left it; each action is one stage of *)
(* the function body, in program order.                                    *)
(*                                                                         *)
(* Numbers.  Probability levels are kept in tenths (0.1 -> 1, 0.5 -> 5,    *)
(* 0.9 -> 9), iso-values therefore in tenths too; the (smoothed) count     *)
(* field is kept in units of 1/FieldScale.  Comparisons cross-multiply.    *)
(***************************************************************************)
EXTENDS Integers, Sequences, FiniteSets, TLC

VARIABLES
    MISSING_DEPENDENCIES, \* module flag, written once at import
    surfaces,             \* argument: list of RegularSurface
    threshold,            \* argument
    smoothing,            \* argument (sigma)
    pc,                   \* position in plume_polygons
    plume_count,          \* local: result of truncate_surfaces
    p_levels,             \* local: fractional levels, in tenths
    levels,               \* local: iso-values level * N, in tenths
    masks,                \* per level: z_values >= level, as passed to _find_contours
    binary_masks,         \* per level: binary_mask inside _find_contours
    found,                \* per level: what _find_contours returned
    contours,             \* per level: the simplified polylines (_extract_contours)
    result,               \* returned FeatureCollection (its features)
    error                 \* exception that left plume_polygons, or "none"

plume_vars == <<MISSING_DEPENDENCIES, surfaces, threshold, smoothing, pc, plume_count,
                p_levels, levels, masks, binary_masks, found, contours, result, error>>

\* One call of _trace_contour_boundary
VARIABLES
    coords,               \* argument: zip(i_coords, j_coords)
    points,               \* local: the real-world points of the cells
    ordered_points,       \* local
    remaining_indices,    \* local
    trace_pc,             \* position in _trace_contour_boundary
    iterations,           \* number of passes through the body of the while loop
    stop_reason,          \* how the while loop was left: "exhausted", "cap", "none"
    traced                \* returned array

trace_vars == <<coords, points, ordered_points, remaining_indices, trace_pc,
                iterations, stop_reason, traced>>

\* One PolygonHandler and one call of an extract_..._poly_url method
VARIABLES
    hazardous_attribute,  \* self._hazardous_attribute, a name or None
    containment_attribute,\* self._containment_attribute, a name or None
    realization,          \* argument: List[int]
    server_calls,         \* addresses self._server.encode_partial_url was called with
    poly_url,             \* returned value
    handler_pc            \* "idle", "call", or the method that returned

handler_vars == <<hazardous_attribute, containment_attribute, realization,
                  server_calls, poly_url, handler_pc>>

\* The colour-by and mark-by dropdowns and organize_color_and_mark_menus
VARIABLES
    content,              \* self._content: which categories the data has
    color_choice,         \* value of the colour-by dropdown
    mark_choice,          \* value of the mark-by dropdown
    mark_options,         \* options of the mark-by dropdown (their values)
    menu_pc               \* "off", "changed" (callback due) or "shown"

menu_vars == <<content, color_choice, mark_choice, mark_options, menu_pc>>

\* Two invocations of plume_polygons under way at once
VARIABLES
    call_args,            \* per invocation: its arguments
    frames,               \* per invocation: position and local names
    interleaved           \* history: a step was taken while the other call was under way

calls_vars == <<call_args, frames, interleaved>>

\* One line simplified, and the outcome simplified again
VARIABLES
    line,                 \* argument of _simplify (poly): the points of a line
    simplify_dist,        \* argument of _simplify: the tolerance, squared
    simplified,           \* _simplify(poly, simplify_dist)
    resimplified,         \* _simplify(simplified, simplify_dist)
    simplify_pc           \* "idle", "call", "once" or "twice"

simplify_vars == <<line, simplify_dist, simplified, resimplified, simplify_pc>>

\* what a call of plume_polygons leaves alone
other_vars == <<trace_vars, handler_vars, menu_vars, calls_vars, simplify_vars>>

\* what a call of _trace_contour_boundary leaves alone
trace_rest == <<plume_vars, handler_vars, menu_vars, calls_vars, simplify_vars>>

\* what a call on the PolygonHandler leaves alone
handler_rest == <<plume_vars, trace_vars, menu_vars, calls_vars, simplify_vars>>

\* what the menus leave alone
menu_rest == <<plume_vars, trace_vars, handler_vars, calls_vars, simplify_vars>>

vars == <<plume_vars, other_vars>>

-----------------------------------------------------------------------------
(* Bounds of the model *)

MaxN == 4

-----------------------------------------------------------------------------
(* Small helpers *)

Max(a, b) == IF a >= b THEN a ELSE b

Min(a, b) == IF a <= b THEN a ELSE b

Abs(a) == IF a >= 0 THEN a ELSE -a

\* index set of a numpy array of the given shape; a 0-d array has one element
Cells(shape) ==
    IF shape = <<>> THEN {<<>>}
    ELSE (0 .. shape[1] - 1) \X (0 .. shape[2] - 1)

\* C (row-major) order of array indices: np.where and ndimage.label scan in it
RasterLess(c, d) == c[1] < d[1] \/ (c[1] = d[1] /\ c[2] < d[2])

RECURSIVE SortedCells(_)
SortedCells(S) ==
    IF S = {} THEN <<>>
    ELSE LET first == CHOOSE c \in S : \A d \in S \ {c} : RasterLess(c, d)
         IN  <<first>> \o SortedCells(S \ {first})

-----------------------------------------------------------------------------
(* Input surfaces.  A cell of RegularSurface.values (a masked float array) *)
(* carries its data value, whether that value is NaN, and its mask bit.    *)

Num(v) == [nan |-> FALSE, mask |-> FALSE, v |-> v]

NaN == [nan |-> TRUE, mask |-> FALSE, v |-> 0]

Masked(v) == [nan |-> FALSE, mask |-> TRUE, v |-> v]

\* rows[i + 1][j + 1] is values[i, j]; i runs over ncol, j over nrow
MkSurface(xori, yori, xinc, yinc, rows) ==
    [ncol |-> Len(rows), nrow |-> Len(rows[1]),
     xori |-> xori, yori |-> yori, xinc |-> xinc, yinc |-> yinc,
     values |-> [c \in (0 .. Len(rows) - 1) \X (0 .. Len(rows[1]) - 1) |->
                    rows[c[1] + 1][c[2] + 1]]]

SurfL == MkSurface(0, 0, 1, 1, << <<Num(2), Num(1)>>, <<Num(1), Num(0)>> >>)

SurfGaps == MkSurface(10, 20, 2, 3, << <<NaN, Num(0)>>, <<Num(1), Masked(2)>> >>)

SurfFlat == MkSurface(0, 0, 1, 1, << <<Num(0), Num(0)>>, <<Num(0), Num(0)>> >>)

SurfRow == MkSurface(0, 0, 1, 1, << <<Num(1), Num(0)>> >>)

SurfDot == MkSurface(0, 0, 1, 1, << <<Num(1)>> >>)

SurfWide == MkSurface(0, 0, 1, 1,
                      << <<Num(2), Num(2), Num(1), Num(0)>>,
                         <<Num(2), Num(2), Num(1), Num(0)>>,
                         <<Num(1), Num(1), Num(1), NaN>> >>)

SurfaceSet == {SurfL, SurfGaps, SurfFlat, SurfRow, SurfDot, SurfWide}

SurfaceLists == UNION {[1 .. n -> SurfaceSet] : n \in 0 .. MaxN}

\* Realizations whose CO2 sits in one rectangular block: the value is 1 on
\* columns i0..i1, rows j0..j1 and 0 on the rest of the grid.
GridRows == 4

MaxCols == 5

GridShapes == {<<ncol, GridRows>> : ncol \in GridRows .. MaxCols}

BlockSurface(shape, i0, i1, j0, j1) ==
    [ncol |-> shape[1], nrow |-> shape[2],
     xori |-> 0, yori |-> 0, xinc |-> 1, yinc |-> 1,
     values |-> [c \in Cells(shape) |->
                    IF c[1] \in i0 .. i1 /\ c[2] \in j0 .. j1 THEN Num(1) ELSE Num(0)]]

\* the rectangles <<i0, i1, j0, j1>> of a grid
Rects(shape) ==
    {q \in (0 .. shape[1] - 1) \X (0 .. shape[1] - 1)
           \X (0 .. shape[2] - 1) \X (0 .. shape[2] - 1) :
        q[1] <= q[2] /\ q[3] <= q[4]}

\* the rectangles that span more than one column and more than one row
WideRects(shape) == {q \in Rects(shape) : q[1] < q[2] /\ q[3] < q[4]}

RectsDisjoint(p, q) == p[2] < q[1] \/ q[2] < p[1] \/ p[4] < q[3] \/ q[4] < p[3]

BlockOf(shape, q) == BlockSurface(shape, q[1], q[2], q[3], q[4])

\* the one-cell-wide diagonal runs <<i0, j0, len, d>> of a grid: cells
\* <<i0 + t, j0 + d * t>> for t in 0 .. len - 1, going up (d = 1) or down (d = -1)
DiagRuns(shape) ==
    {r \in (0 .. shape[1] - 1) \X (0 .. shape[2] - 1) \X (2 .. shape[1]) \X {-1, 1} :
        /\ r[1] + r[3] - 1 <= shape[1] - 1
        /\ r[2] + r[4] * (r[3] - 1) \in 0 .. shape[2] - 1}

DiagCells(r) == {<<r[1] + t, r[2] + r[4] * t>> : t \in 0 .. r[3] - 1}

\* realization with CO2 (value 1) on a diagonal run
DiagSurface(shape, r) ==
    [ncol |-> shape[1], nrow |-> shape[2],
     xori |-> 0, yori |-> 0, xinc |-> 1, yinc |-> 1,
     values |-> [c \in Cells(shape) |-> IF c \in DiagCells(r) THEN Num(1) ELSE Num(0)]]

Thresholds == {-1, 0, 1}

Smoothings == {0, 1}

ShapeOf(s) == <<s.ncol, s.nrow>>

-----------------------------------------------------------------------------
(* truncate_surfaces *)

\* np.isnan(s.values) | s.values.mask
IsMissing(cell) == cell.nan \/ cell.mask

\* np.where(missing, 0.0, s.values)
Filled(cell) == IF IsMissing(cell) THEN 0 ELSE cell.v

\* mutation: the thresholded values are summed without the cast to 0/1
BinaryCellUncast(cell, thr) == IF Filled(cell) > thr THEN Filled(cell) ELSE 0

\* (... > threshold).astype(float)
BinaryCell(cell, thr) == IF Filled(cell) > thr THEN 1 ELSE 0

Binary(s, thr) ==
    [shape |-> ShapeOf(s),
     data  |-> [c \in Cells(ShapeOf(s)) |-> BinaryCell(s.values[c], thr)]]

\* numpy broadcasting of two 2-d shapes
BroadcastOK(sa, sb) == \A d \in 1 .. 2 : sa[d] = sb[d] \/ sa[d] = 1 \/ sb[d] = 1

BroadcastShape(sa, sb) == <<Max(sa[1], sb[1]), Max(sa[2], sb[2])>>

BroadcastAt(a, c) ==
    a.data[<<IF a.shape[1] = 1 THEN 0 ELSE c[1], IF a.shape[2] = 1 THEN 0 ELSE c[2]>>]

ArrAdd(a, b) ==
    LET sh == BroadcastShape(a.shape, b.shape)
    IN  [shape |-> sh, data |-> [c \in Cells(sh) |-> BroadcastAt(a, c) + BroadcastAt(b, c)]]

\* the int 0 that the builtin sum starts from
Scalar(v) == [shape |-> <<>>, data |-> [c \in {<<>>} |-> v]]

\* builtin sum(binary): ((0 + b1) + b2) + ...; ok = FALSE when numpy raises
\* "operands could not be broadcast together" (ValueError)
RECURSIVE SumFrom(_, _)
SumFrom(acc, rest) ==
    IF rest = <<>> THEN [ok |-> TRUE, arr |-> acc]
    ELSE IF acc.shape = <<>>
         THEN SumFrom([shape |-> Head(rest).shape,
                       data  |-> [c \in Cells(Head(rest).shape) |->
                                     acc.data[<<>>] + Head(rest).data[c]]],
                      Tail(rest))
    ELSE IF BroadcastOK(acc.shape, Head(rest).shape)
         THEN SumFrom(ArrAdd(acc, Head(rest)), Tail(rest))
    ELSE [ok |-> FALSE, arr |-> acc]

\* denominator of the stored field values
FieldScale == 16

Clamp(i, n) == Max(0, Min(i, n - 1))

\* mutation: the kernel is applied whatever sigma is
gaussian_filter_always(count, sigma) ==
    IF count.shape = <<>>
    THEN [shape |-> count.shape,
          data  |-> [c \in Cells(count.shape) |-> FieldScale * count.data[c]]]
    ELSE LET m == count.shape[1]
             n == count.shape[2]
             ax0 == [c \in Cells(count.shape) |->
                        count.data[<<Clamp(c[1] - 1, m), c[2]>>]
                        + 2 * count.data[c]
                        + count.data[<<Clamp(c[1] + 1, m), c[2]>>]]
         IN  [shape |-> count.shape,
              data  |-> [c \in Cells(count.shape) |->
                            ax0[<<c[1], Clamp(c[2] - 1, n)>>]
                            + 2 * ax0[c]
                            + ax0[<<c[1], Clamp(c[2] + 1, n)>>]]]

\* scipy.ndimage.gaussian_filter(count, sigma, mode="nearest").  sigma = 0
\* filters no axis and copies the input.  For sigma > 0 the separable,
\* normalised kernel is represented by the binomial weights 1-2-1 per axis,
\* edge values replicated; the result is in units of 1/FieldScale.
gaussian_filter(count, sigma) ==
    IF sigma = 0 \/ count.shape = <<>>
    THEN [shape |-> count.shape,
          data  |-> [c \in Cells(count.shape) |-> FieldScale * count.data[c]]]
    ELSE LET m == count.shape[1]
             n == count.shape[2]
             ax0 == [c \in Cells(count.shape) |->
                        count.data[<<Clamp(c[1] - 1, m), c[2]>>]
                        + 2 * count.data[c]
                        + count.data[<<Clamp(c[1] + 1, m), c[2]>>]]
         IN  [shape |-> count.shape,
              data  |-> [c \in Cells(count.shape) |->
                            ax0[<<c[1], Clamp(c[2] - 1, n)>>]
                            + 2 * ax0[c]
                            + ax0[<<c[1], Clamp(c[2] + 1, n)>>]]]

\* mutation: the missing cells are set to 0 in the surface itself
SurfaceFilledInPlace(s) ==
    [s EXCEPT !.values = [c \in DOMAIN s.values |->
                             IF IsMissing(s.values[c]) THEN Num(0) ELSE s.values[c]]]

\* the surface object after line 48: np.isnan, "|", np.where, ">" and astype
\* each return a new array, so s.values and its mask are only read
SurfaceAfterRead(s) == s

truncate_surfaces(surfs, thr, sigma) ==
    LET binary == [k \in 1 .. Len(surfs) |-> Binary(surfs[k], thr)]
        count  == SumFrom(Scalar(0), binary)
    IN  IF count.ok
        THEN [ok |-> TRUE, arr |-> gaussian_filter(count.arr, sigma)]
        ELSE [ok |-> FALSE, arr |-> count.arr]

-----------------------------------------------------------------------------
(* levels *)

\* mutation: the gates on the number of surfaces are off by one
PLevelsInclusive(n) ==
    <<1>> \o (IF n >= 2 THEN <<5>> ELSE <<>>) \o (IF n >= 1 THEN <<9>> ELSE <<>>)

\* p_levels = [0.1]; += 0.5 if len > 2; += 0.9 if len > 1    (tenths)
PLevels(n) ==
    <<1>> \o (IF n > 2 THEN <<5>> ELSE <<>>) \o (IF n > 1 THEN <<9>> ELSE <<>>)

\* mutation: the fractional levels are used as iso-values, unscaled
LevelsUnscaled(pl, n) == pl

\* levels = [lvl * len(surfaces) for lvl in p_levels]        (tenths)
Levels(pl, n) == [k \in 1 .. Len(pl) |-> pl[k] * n]

-----------------------------------------------------------------------------
(* _find_contours *)

\* mutation: the comparison with the iso-value is turned around
LevelMaskBelow(z, level) ==
    [shape |-> z.shape,
     data  |-> [c \in Cells(z.shape) |-> 10 * z.data[c] <= FieldScale * level]]

\* mutation: strictly greater instead of greater or equal
LevelMaskStrict(z, level) ==
    [shape |-> z.shape,
     data  |-> [c \in Cells(z.shape) |-> 10 * z.data[c] > FieldScale * level]]

\* z_values >= level, the argument _find_all_contours passes on
LevelMask(z, level) ==
    [shape |-> z.shape,
     data  |-> [c \in Cells(z.shape) |-> 10 * z.data[c] >= FieldScale * level]]

\* a numpy bool compared with a float: True is 1.0, False is 0.0
BoolAsNum(b) == IF b THEN 1 ELSE 0

\* binary_mask = z_values >= 0.5
BinaryMask(z) ==
    [shape |-> z.shape,
     data  |-> [c \in Cells(z.shape) |-> 2 * BoolAsNum(z.data[c]) >= 1]]

TrueCells(m) == {c \in Cells(m.shape) : m.data[c]}

\* mutation: only the empty mask is treated as degenerate
IsDegenerateEmptyOnly(m) == Cardinality({c \in Cells(m.shape) : m.data[c]}) = 0

\* true_count == 0 or true_count == binary_mask.size
IsDegenerate(m) ==
    LET true_count == Cardinality(TrueCells(m))
    IN  true_count = 0 \/ true_count = Cardinality(Cells(m.shape))

\* ndimage.binary_erosion(binary_mask, structure=np.ones((3, 3))): a cell
\* survives when all nine cells under the structuring element are true;
\* cells outside the array count as false (border_value = 0)
Eroded(m) ==
    {c \in TrueCells(m) :
        \A di \in -1 .. 1, dj \in -1 .. 1 :
            /\ <<c[1] + di, c[2] + dj>> \in Cells(m.shape)
            /\ m.data[<<c[1] + di, c[2] + dj>>]}

\* boundary = binary_mask & ~eroded
Boundary(m) == TrueCells(m) \ Eroded(m)

\* mutation: diagonal neighbours are connected too
AdjacentOrDiagonal(c, d) == c # d /\ Abs(c[1] - d[1]) <= 1 /\ Abs(c[2] - d[2]) <= 1

\* ndimage.label's default structuring element: edge neighbours only
Adjacent(c, d) == Abs(c[1] - d[1]) + Abs(c[2] - d[2]) = 1

\* mutation: all boundary cells are taken as one component
GrowAll(S, B) == B

RECURSIVE Grow(_, _)
Grow(S, B) ==
    LET S2 == S \cup {d \in B : \E e \in S : Adjacent(d, e)}
    IN  IF S2 = S THEN S ELSE Grow(S2, B)

\* ndimage.label(boundary): the components, numbered in scan order
RECURSIVE Label(_)
Label(B) ==
    IF B = {} THEN <<>>
    ELSE LET seed == CHOOSE c \in B : \A d \in B \ {c} : RasterLess(c, d)
             comp == Grow({seed}, B)
         IN  <<comp>> \o Label(B \ comp)

\* mutation: the x coordinate is taken along the second index
XMeshByRow(ref) ==
    [shape |-> ShapeOf(ref),
     data  |-> [c \in Cells(ShapeOf(ref)) |-> ref.xori + c[2] * ref.xinc]]

\* np.meshgrid(x_lin, y_lin, indexing="ij") over the reference surface
XMesh(ref) ==
    [shape |-> ShapeOf(ref),
     data  |-> [c \in Cells(ShapeOf(ref)) |-> ref.xori + c[1] * ref.xinc]]

YMesh(ref) ==
    [shape |-> ShapeOf(ref),
     data  |-> [c \in Cells(ShapeOf(ref)) |-> ref.yori + c[2] * ref.yinc]]

\* mutation: the two indices of a cell are used the wrong way round
ContourPointsTransposed(comp, x_mesh, y_mesh) ==
    LET cells == SortedCells(comp)
    IN  [k \in 1 .. Len(cells) |->
            LET i == Clamp(cells[k][2], x_mesh.shape[1])
                j == Clamp(cells[k][1], x_mesh.shape[2])
            IN  <<x_mesh.data[<<i, j>>], y_mesh.data[<<i, j>>]>>]

\* lines 125-132: index pairs to real-world points, in np.where order
ContourPoints(comp, x_mesh, y_mesh) ==
    LET cells == SortedCells(comp)
    IN  [k \in 1 .. Len(cells) |->
            LET i == Clamp(cells[k][1], x_mesh.shape[1])
                j == Clamp(cells[k][2], x_mesh.shape[2])
            IN  <<x_mesh.data[<<i, j>>], y_mesh.data[<<i, j>>]>>]

RECURSIVE SumOver(_, _)
SumOver(pts, d) ==
    IF pts = <<>> THEN 0 ELSE Head(pts)[d] + SumOver(Tail(pts), d)

\* position of arctan2(dy, dx) in (-pi, pi]: below the x axis, on its
\* positive half (arctan2(0, 0) is 0 too), above it, on its negative half
Sector(v) ==
    IF v[2] < 0 THEN 0
    ELSE IF v[2] > 0 THEN 2
    ELSE IF v[1] >= 0 THEN 1 ELSE 3

\* arctan2 of v is smaller than arctan2 of w
AngleLess(v, w) ==
    \/ Sector(v) < Sector(w)
    \/ /\ Sector(v) = Sector(w)
       /\ Sector(v) \in {0, 2}
       /\ v[1] * w[2] - v[2] * w[1] > 0

\* lines 137-143: order the points by angle around their centroid.  The
\* offsets from the centroid are scaled by the number of points, which keeps
\* them integral and leaves the angle alone.  numpy does not fix the order
\* argsort gives to equal keys; here equal angles keep their input order.
OrderByAngle(pts) ==
    LET n   == Len(pts)
        sx  == SumOver(pts, 1)
        sy  == SumOver(pts, 2)
        dir == [k \in 1 .. n |-> <<n * pts[k][1] - sx, n * pts[k][2] - sy>>]
        Before(a, b) == AngleLess(dir[a], dir[b])
                        \/ (~AngleLess(dir[b], dir[a]) /\ a < b)
        rank == [k \in 1 .. n |-> 1 + Cardinality({a \in 1 .. n : Before(a, k)})]
        sort_indices == [r \in 1 .. n |-> CHOOSE k \in 1 .. n : rank[k] = r]
    IN  [r \in 1 .. n |-> pts[sort_indices[r]]]

\* mutation: the ordered points are returned without the closing point
ContourOfOpen(comp, x_mesh, y_mesh) ==
    OrderByAngle(ContourPoints(comp, x_mesh, y_mesh))

\* lines 114-148 for one labelled component
ContourOf(comp, x_mesh, y_mesh) ==
    LET ordered_contour == OrderByAngle(ContourPoints(comp, x_mesh, y_mesh))
    IN  Append(ordered_contour, ordered_contour[1])

\* smallest component that is kept: len(i_coords) < 3 is skipped
MinComponent == 3

\* mutation: components of every size are turned into contours
find_contours_keep_all(x_mesh, y_mesh, z_values) ==
    LET binary_mask == BinaryMask(z_values)
    IN  IF IsDegenerate(binary_mask) THEN <<>>
        ELSE LET comps == Label(Boundary(binary_mask))
             IN  [k \in 1 .. Len(comps) |-> ContourOf(comps[k], x_mesh, y_mesh)]

_find_contours(x_mesh, y_mesh, z_values) ==
    LET binary_mask == BinaryMask(z_values)
    IN  IF IsDegenerate(binary_mask) THEN <<>>
        ELSE LET comps == Label(Boundary(binary_mask))
                 Kept(comp) == Cardinality(comp) >= MinComponent
                 kept  == SelectSeq(comps, Kept)
             IN  [k \in 1 .. Len(kept) |-> ContourOf(kept[k], x_mesh, y_mesh)]

-----------------------------------------------------------------------------
(* _simplify: shapely's LineString.simplify(simplify_dist), which keeps     *)
(* topology by default.  Distances are kept squared, as fractions <<n, d>>. *)

SqDist(p, q) == (p[1] - q[1]) * (p[1] - q[1]) + (p[2] - q[2]) * (p[2] - q[2])

\* squared distance of point p from the segment a-b
SegSqDist(p, a, b) ==
    LET len2  == SqDist(a, b)
        dot   == (p[1] - a[1]) * (b[1] - a[1]) + (p[2] - a[2]) * (b[2] - a[2])
        cross == (b[1] - a[1]) * (p[2] - a[2]) - (b[2] - a[2]) * (p[1] - a[1])
    IN  IF len2 = 0 \/ dot <= 0 THEN <<SqDist(p, a), 1>>
        ELSE IF dot >= len2 THEN <<SqDist(p, b), 1>>
        ELSE <<cross * cross, len2>>

FracGreater(a, b) == a[1] * b[2] > b[1] * a[2]

\* plume_polygons' default simplify_factor, 1.2, in tenths
SimplifyFactor == 12

\* simplify_dist = simplify_factor * mean(|x[1] - x[0]|, |y[1] - y[0]|), squared
SimplifyDist2(ref) ==
    LET twice_res == Abs(ref.xinc) + Abs(ref.yinc)
    IN  <<(SimplifyFactor * twice_res) * (SimplifyFactor * twice_res), 400>>

\* the interior point furthest from the segment i-j; the first one on a tie
FindFurthest(pts, i, j) ==
    CHOOSE k \in (i + 1) .. (j - 1) :
        /\ \A l \in (i + 1) .. (j - 1) :
              ~FracGreater(SegSqDist(pts[l], pts[i], pts[j]),
                           SegSqDist(pts[k], pts[i], pts[j]))
        /\ \A l \in (i + 1) .. (k - 1) :
              FracGreater(SegSqDist(pts[k], pts[i], pts[j]),
                          SegSqDist(pts[l], pts[i], pts[j]))

\* 1, 0 or -1: c lies left of, on, or right of the line from a to b
Orient(a, b, c) ==
    LET v == (b[1] - a[1]) * (c[2] - a[2]) - (b[2] - a[2]) * (c[1] - a[1])
    IN  IF v > 0 THEN 1 ELSE IF v < 0 THEN -1 ELSE 0

\* p lies in the bounding box of the segment a-b
InBox(p, a, b) ==
    /\ (a[1] <= p[1] /\ p[1] <= b[1]) \/ (b[1] <= p[1] /\ p[1] <= a[1])
    /\ (a[2] <= p[2] /\ p[2] <= b[2]) \/ (b[2] <= p[2] /\ p[2] <= a[2])

\* the segments a-b and c-d meet in a point that is not an end of both
HasInteriorIntersection(a, b, c, d) ==
    \/ Orient(a, b, c) * Orient(a, b, d) < 0 /\ Orient(c, d, a) * Orient(c, d, b) < 0
    \/ Orient(a, b, c) = 0 /\ InBox(c, a, b) /\ c \notin {a, b}
    \/ Orient(a, b, d) = 0 /\ InBox(d, a, b) /\ d \notin {a, b}
    \/ Orient(c, d, a) = 0 /\ InBox(a, c, d) /\ a \notin {c, d}
    \/ Orient(c, d, b) = 0 /\ InBox(b, c, d) /\ b \notin {c, d}

\* the topology test: the segment i-j would meet, in its interior or theirs,
\* a segment already put out (out lists the indices kept so far) or a segment
\* of the line that is still to be visited
HasBadIntersection(pts, i, j, out) ==
    \/ \E k \in 1 .. Len(out) - 1 :
          HasInteriorIntersection(pts[out[k]], pts[out[k + 1]], pts[i], pts[j])
    \/ \E k \in j .. Len(pts) - 1 :
          HasInteriorIntersection(pts[k], pts[k + 1], pts[i], pts[j])

\* the recursive section simplifier: out, the indices kept so far, extended
\* by the end indices of the output segments that replace pts[i .. j].  A
\* section is flattened when no point of it is further than the tolerance
\* from the segment i-j, unless that could leave the line with fewer points
\* than its minimum size or the topology test refuses the segment.
RECURSIVE SimplifySection(_, _, _, _, _, _, _)
SimplifySection(pts, tol2, min_size, i, j, depth, out) ==
    IF i + 1 = j THEN Append(out, j)
    ELSE LET result_size == IF Len(out) = 1 THEN 0 ELSE Len(out)
             too_small   == result_size < min_size /\ depth + 2 < min_size
             far         == FindFurthest(pts, i, j)
             too_far     == FracGreater(SegSqDist(pts[far], pts[i], pts[j]), tol2)
         IN  IF ~too_small /\ ~too_far /\ ~HasBadIntersection(pts, i, j, out)
             THEN Append(out, j)
             ELSE SimplifySection(pts, tol2, min_size, far, j, depth + 1,
                      SimplifySection(pts, tol2, min_size, i, far, depth + 1, out))

\* a closed line keeps at least 4 points, an open one at least 2
MinimumSize(poly) == IF poly[1] = poly[Len(poly)] THEN 4 ELSE 2

\* mutation: no minimum size for a closed line, which may then collapse
simplify_plain(poly, simplify_dist2) ==
    LET out == SimplifySection(poly, simplify_dist2, 2, 1, Len(poly), 0, <<1>>)
    IN  [k \in 1 .. Len(out) |-> poly[out[k]]]

\* mutation: the last point of the line is not put out
simplify_without_end(poly, simplify_dist2) ==
    LET out == SimplifySection(poly, simplify_dist2, MinimumSize(poly),
                               1, Len(poly), 0, <<1>>)
    IN  [k \in 1 .. Len(out) - 1 |-> poly[out[k]]]

\* lines 207-209, for a line of at least two points
_simplify(poly, simplify_dist2) ==
    LET out == SimplifySection(poly, simplify_dist2, MinimumSize(poly),
                               1, Len(poly), 0, <<1>>)
    IN  [k \in 1 .. Len(out) |-> poly[out[k]]]

\* _find_all_contours, lines 81-83: the contours found for one level, simplified
LevelPolys(polys, simplify_dist2) ==
    [k \in 1 .. Len(polys) |-> _simplify(polys[k], simplify_dist2)]

\* f"P{level * 100}" for the three float levels
FeatureId(p) ==
    CASE p = 1 -> "P10.000000000000002"
      [] p = 5 -> "P50.0"
      [] p = 9 -> "P90.0"

\* mutation: one feature per level, holding all the contours of the level
RECURSIVE FeaturesPerLevel(_, _, _)
FeaturesPerLevel(pl, polys, k) ==
    IF k > Len(pl) \/ k > Len(polys) THEN <<>>
    ELSE <<[id |-> FeatureId(pl[k]), geometry |-> polys[k]]>>
         \o FeaturesPerLevel(pl, polys, k + 1)

\* mutation: every feature is named after the first level
RECURSIVE FeaturesFirstLevel(_, _, _)
FeaturesFirstLevel(pl, polys, k) ==
    IF k > Len(pl) \/ k > Len(polys) THEN <<>>
    ELSE [n \in 1 .. Len(polys[k]) |->
             [id |-> FeatureId(pl[1]), geometry |-> polys[k][n]]]
         \o FeaturesFirstLevel(pl, polys, k + 1)

\* the comprehension of lines 32-39 from level index k on
RECURSIVE Features(_, _, _)
Features(pl, polys, k) ==
    IF k > Len(pl) \/ k > Len(polys) THEN <<>>
    ELSE [n \in 1 .. Len(polys[k]) |->
             [id |-> FeatureId(pl[k]), geometry |-> polys[k][n]]]
         \o Features(pl, polys, k + 1)

-----------------------------------------------------------------------------
(* plume_polygons, stage by stage *)

inputs == <<MISSING_DEPENDENCIES, surfaces, threshold, smoothing>>

\* no call of _trace_contour_boundary is under way
TraceIdle ==
    /\ coords = <<>>
    /\ points = <<>>
    /\ ordered_points = <<>>
    /\ remaining_indices = <<>>
    /\ trace_pc = "idle"
    /\ iterations = 0
    /\ stop_reason = "none"
    /\ traced = <<>>

\* no call on a PolygonHandler is under way
HandlerIdle ==
    /\ hazardous_attribute = "None"
    /\ containment_attribute = "None"
    /\ realization = <<>>
    /\ server_calls = <<>>
    /\ poly_url = "None"
    /\ handler_pc = "idle"

\* no menu is laid out
MenuIdle ==
    /\ content = [zones |-> FALSE, regions |-> FALSE, plume_groups |-> FALSE]
    /\ color_choice = "None"
    /\ mark_choice = "None"
    /\ mark_options = <<>>
    /\ menu_pc = "off"

\* no two calls of plume_polygons are under way at once
CallsIdle ==
    /\ call_args = <<>>
    /\ frames = <<>>
    /\ interleaved = FALSE

\* no line is being simplified on its own
SimplifyIdle ==
    /\ line = <<>>
    /\ simplify_dist = <<0, 1>>
    /\ simplified = <<>>
    /\ resimplified = <<>>
    /\ simplify_pc = "idle"

OthersIdle == TraceIdle /\ HandlerIdle /\ MenuIdle /\ CallsIdle /\ SimplifyIdle

Init ==
    /\ MISSING_DEPENDENCIES \in BOOLEAN
    /\ surfaces \in SurfaceLists
    /\ threshold \in Thresholds
    /\ smoothing \in Smoothings
    /\ pc = "call"
    /\ plume_count = Scalar(0)
    /\ p_levels = <<>>
    /\ levels = <<>>
    /\ masks = <<>>
    /\ binary_masks = <<>>
    /\ found = <<>>
    /\ contours = <<>>
    /\ result = <<>>
    /\ error = "none"
    /\ OthersIdle

\* mutation: the flag is not consulted
EarlyReturnNever(flag) == FALSE

\* line 21: if MISSING_DEPENDENCIES
EarlyReturn(flag) == flag

\* lines 21-22: return geojson.FeatureCollection(features=[])
ReturnEmpty ==
    /\ pc = "call"
    /\ EarlyReturn(MISSING_DEPENDENCIES)
    /\ result' = <<>>
    /\ pc' = "done"
    /\ UNCHANGED <<inputs, plume_count, p_levels, levels, masks, binary_masks,
                   found, contours, error>>
    /\ UNCHANGED other_vars

\* line 23: plume_count = truncate_surfaces(surfaces, threshold, smoothing)
TruncateSurfaces ==
    /\ pc = "call"
    /\ ~EarlyReturn(MISSING_DEPENDENCIES)
    /\ LET r == truncate_surfaces(surfaces, threshold, smoothing)
       IN  IF r.ok
           THEN /\ plume_count' = r.arr
                /\ pc' = "levels"
                /\ error' = error
           ELSE /\ plume_count' = plume_count
                /\ pc' = "raised"
                /\ error' = "ValueError"
    /\ surfaces' = [k \in DOMAIN surfaces |-> SurfaceAfterRead(surfaces[k])]
    /\ UNCHANGED <<MISSING_DEPENDENCIES, threshold, smoothing, p_levels, levels,
                   masks, binary_masks, found, contours, result>>
    /\ UNCHANGED other_vars

\* lines 24-29
ComputeLevels ==
    /\ pc = "levels"
    /\ p_levels' = PLevels(Len(surfaces))
    /\ levels' = Levels(PLevels(Len(surfaces)), Len(surfaces))
    /\ pc' = "extract"
    /\ UNCHANGED <<inputs, plume_count, masks, binary_masks, found, contours,
                   result, error>>
    /\ UNCHANGED other_vars

\* line 30 raises IndexError: surfaces[0] of an empty list, or x[1], y[1]
\* (line 64) of a reference surface with a single column or row
ExtractRaises ==
    \/ Len(surfaces) = 0
    \/ surfaces[1].ncol < 2
    \/ surfaces[1].nrow < 2

\* line 30: contours = _extract_contours(plume_count, surfaces[0], ...)
ExtractContours ==
    /\ pc = "extract"
    /\ IF ExtractRaises
       THEN /\ pc' = "raised"
            /\ error' = "IndexError"
            /\ UNCHANGED <<masks, binary_masks, found, contours>>
       ELSE LET ref == surfaces[1]
                lv  == DOMAIN levels
            IN  /\ masks' = [k \in lv |-> LevelMask(plume_count, levels[k])]
                /\ binary_masks' =
                       [k \in lv |-> BinaryMask(LevelMask(plume_count, levels[k]))]
                /\ found' =
                       [k \in lv |-> _find_contours(XMesh(ref), YMesh(ref),
                                         LevelMask(plume_count, levels[k]))]
                /\ contours' =
                       [k \in lv |-> LevelPolys(found'[k], SimplifyDist2(ref))]
                /\ pc' = "assemble"
                /\ error' = error
    /\ UNCHANGED <<inputs, plume_count, p_levels, levels, result>>
    /\ UNCHANGED other_vars

\* lines 31-40
AssembleFeatures ==
    /\ pc = "assemble"
    /\ result' = Features(p_levels, contours, 1)
    /\ pc' = "done"
    /\ UNCHANGED <<inputs, plume_count, p_levels, levels, masks, binary_masks,
                   found, contours, error>>
    /\ UNCHANGED other_vars

Next ==
    \/ ReturnEmpty
    \/ TruncateSurfaces
    \/ ComputeLevels
    \/ ExtractContours
    \/ AssembleFeatures

Spec == Init /\ [][Next]_vars

\* the same program, called with block realizations, threshold 0 and no
\* smoothing
InitBlocks ==
    /\ MISSING_DEPENDENCIES \in BOOLEAN
    /\ \E shape \in GridShapes :
          \* two realizations with disjoint wide blocks
          \/ \E p, q \in WideRects(shape) :
                /\ RectsDisjoint(p, q)
                /\ surfaces = <<BlockOf(shape, p), BlockOf(shape, q)>>
          \* up to MaxN copies of one realization with any block
          \/ \E q \in Rects(shape), n \in 1 .. MaxN :
                surfaces = [k \in 1 .. n |-> BlockOf(shape, q)]
          \* up to MaxN copies of one realization with a diagonal run
          \/ \E r \in DiagRuns(shape), n \in 1 .. MaxN :
                surfaces = [k \in 1 .. n |-> DiagSurface(shape, r)]
    /\ threshold = 0
    /\ smoothing = 0
    /\ pc = "call"
    /\ plume_count = Scalar(0)
    /\ p_levels = <<>>
    /\ levels = <<>>
    /\ masks = <<>>
    /\ binary_masks = <<>>
    /\ found = <<>>
    /\ contours = <<>>
    /\ result = <<>>
    /\ error = "none"
    /\ OthersIdle

SpecBlocks == InitBlocks /\ [][Next]_vars

-----------------------------------------------------------------------------
(* Properties *)

N == Len(surfaces)

AllSameShape == \A a, b \in 1 .. N : ShapeOf(surfaces[a]) = ShapeOf(surfaces[b])

\* plume_polygons got past truncate_surfaces
Truncated == ~MISSING_DEPENDENCIES /\ pc \in {"levels", "extract", "assemble", "done"}

\* plume_polygons got past the computation of the levels
Levelled ==
    /\ ~MISSING_DEPENDENCIES
    /\ pc \in {"extract", "assemble", "done"} \/ (pc = "raised" /\ error = "IndexError")

\* plume_polygons got past _extract_contours
Extracted == ~MISSING_DEPENDENCIES /\ pc \in {"assemble", "done"}

\* C1: the probability levels are 0.1 for one surface, 0.1 and 0.9 for two,
\* 0.1, 0.5 and 0.9 for three or more, and each level that is contoured is one
\* of them: there is exactly one mask per level.
C1_CanonicalLevels ==
    /\ (Levelled /\ N >= 1) =>
          p_levels = (IF N = 1 THEN <<1>> ELSE IF N = 2 THEN <<1, 9>> ELSE <<1, 5, 9>>)
    /\ (Extracted /\ N >= 1) => DOMAIN masks = DOMAIN p_levels

C1_Witness ==
    /\ pc = "done"
    /\ N = 3
    /\ p_levels = <<1, 5, 9>>
    /\ result # <<>>

\* C2: the iso-value of every probability level p is p * N, and it is the
\* value the smoothed count field is compared against.
C2_IsoValue ==
    /\ Levelled =>
          /\ DOMAIN levels = DOMAIN p_levels
          /\ \A k \in DOMAIN p_levels : levels[k] = p_levels[k] * N
    /\ Extracted =>
          \A k \in DOMAIN p_levels : \A c \in Cells(plume_count.shape) :
              masks[k].data[c] <=> (10 * plume_count.data[c] >= FieldScale * p_levels[k] * N)

C2_Witness ==
    /\ pc = "done"
    /\ N = 3
    /\ levels = <<3, 15, 27>>
    /\ \E k \in DOMAIN masks : TrueCells(masks[k]) # {}

\* the surface has a value at the cell, and the value is greater than thr
ValueExceeds(s, c, thr) ==
    /\ c \in DOMAIN s.values
    /\ ~s.values[c].nan
    /\ ~s.values[c].mask
    /\ s.values[c].v > thr

\* C3: with smoothing 0, every cell of the field truncate_surfaces returns is
\* the number of input surfaces whose value at that cell is strictly greater
\* than threshold (stated for surfaces of one shape).
C3_StrictCount ==
    (Truncated /\ smoothing = 0 /\ N >= 1 /\ AllSameShape) =>
        \A c \in Cells(plume_count.shape) :
            plume_count.data[c] =
                FieldScale * Cardinality({k \in 1 .. N : ValueExceeds(surfaces[k], c, threshold)})

\* C4: a cell that is NaN or masked in a surface contributes 0 to the count
\* field, whatever the threshold: no cell counts more surfaces than have a
\* value there (stated for smoothing 0 and surfaces of one shape).
C4_MissingNeverPresent ==
    (Truncated /\ smoothing = 0 /\ N >= 1 /\ AllSameShape) =>
        \A c \in Cells(plume_count.shape) :
            plume_count.data[c] <=
                FieldScale * Cardinality({k \in 1 .. N : ~IsMissing(surfaces[k].values[c])})

\* C5: appending one more surface of the same shape never decreases the
\* unsmoothed count at any cell and increases it by at most 1.
C5_Monotone ==
    (pc = "levels" /\ smoothing = 0 /\ N >= 1 /\ AllSameShape) =>
        \A s \in SurfaceSet :
            ShapeOf(s) = plume_count.shape =>
                LET more == truncate_surfaces(Append(surfaces, s), threshold, 0)
                IN  /\ more.ok
                    /\ more.arr.shape = plume_count.shape
                    /\ \A c \in Cells(plume_count.shape) :
                          more.arr.data[c] - plume_count.data[c] \in {0, FieldScale}

C5_Witness ==
    /\ pc = "levels"
    /\ smoothing = 0
    /\ N = 2
    /\ AllSameShape
    /\ \E s \in SurfaceSet :
          /\ ShapeOf(s) = plume_count.shape
          /\ LET more == truncate_surfaces(Append(surfaces, s), threshold, 0)
             IN  /\ \E c \in Cells(plume_count.shape) :
                       more.arr.data[c] = plume_count.data[c] + FieldScale
                 /\ \E c \in Cells(plume_count.shape) :
                       more.arr.data[c] = plume_count.data[c]

\* C6: when the input surfaces do not all have the same shape, the call
\* fails in the aggregation (numpy's broadcast error standing for
\* ShapeMismatch); it never goes on with a count field.
C6_ShapeMismatchFails ==
    (~MISSING_DEPENDENCIES /\ ~AllSameShape /\ pc # "call") =>
        (pc = "raised" /\ error = "ValueError")

\* C7: with an empty list of surfaces and the geometry dependency available,
\* the call fails with InvalidInput, before anything is computed.
C7_EmptyIsInvalidInput ==
    (~MISSING_DEPENDENCIES /\ N = 0 /\ pc # "call") =>
        (pc = "raised" /\ error = "InvalidInput")

\* C8: when MISSING_DEPENDENCIES is true, plume_polygons returns a feature
\* collection with zero features for every input and never raises.
C8_FallbackEmpty ==
    MISSING_DEPENDENCIES =>
        /\ error = "none"
        /\ pc \in {"call", "done"}
        /\ pc = "done" => result = <<>>

C8_Witness ==
    /\ MISSING_DEPENDENCIES
    /\ pc = "done"
    /\ result = <<>>
    /\ ~truncate_surfaces(surfaces, threshold, smoothing).ok

\* C9: a level whose mask is entirely false or entirely true gets zero
\* contours and no error; every level of the call is processed.
C9_DegenerateMask ==
    Extracted =>
        /\ error = "none"
        /\ DOMAIN found = DOMAIN levels
        /\ DOMAIN contours = DOMAIN levels
        /\ \A k \in DOMAIN masks :
              (\/ TrueCells(masks[k]) = {}
               \/ TrueCells(masks[k]) = Cells(masks[k].shape))
              => (found[k] = <<>> /\ contours[k] = <<>>)

C9_Witness ==
    /\ pc = "done"
    /\ \E k \in DOMAIN masks : TrueCells(masks[k]) = {} /\ found[k] = <<>>
    /\ \E k \in DOMAIN masks : found[k] # <<>>

\* C10: the mask of every level is exactly the set of cells whose smoothed
\* value is greater than or equal to the iso-value, and the second
\* thresholding inside _find_contours leaves that mask unchanged.
C10_MaskIsGreaterOrEqual ==
    Extracted =>
        \A k \in DOMAIN levels :
            /\ masks[k].shape = plume_count.shape
            /\ TrueCells(masks[k]) =
                   {c \in Cells(plume_count.shape) :
                       10 * plume_count.data[c] >= FieldScale * levels[k]}
            /\ binary_masks[k] = masks[k]

C10_Witness ==
    /\ pc = "done"
    /\ \E k \in DOMAIN levels : \E c \in Cells(plume_count.shape) :
          /\ 10 * plume_count.data[c] = FieldScale * levels[k]
          /\ masks[k].data[c]
          /\ binary_masks[k].data[c]
          /\ found[k] # <<>>

\* C11: within one call, for any two levels p1 < p2 the cells of the mask of
\* p1 include the cells of the mask of p2.
C11_LevelOrdering ==
    Extracted =>
        \A a, b \in DOMAIN p_levels :
            p_levels[a] < p_levels[b] => TrueCells(masks[b]) \subseteq TrueCells(masks[a])

C11_Witness ==
    /\ pc = "done"
    /\ ~MISSING_DEPENDENCIES
    /\ \E a, b \in DOMAIN p_levels :
          /\ p_levels[a] < p_levels[b]
          /\ TrueCells(masks[b]) # {}
          /\ TrueCells(masks[b]) # TrueCells(masks[a])
          /\ TrueCells(masks[b]) \subseteq TrueCells(masks[a])

\* the 8 neighbours of cell c that lie inside a grid of the given shape
Neighbours8(shape, c) ==
    {d \in Cells(shape) : d # c /\ Abs(d[1] - c[1]) <= 1 /\ Abs(d[2] - c[2]) <= 1}

NonDegenerate(m) == ~IsDegenerate(m)

\* C12: the boundary cells of a non-degenerate mask are exactly the true cells
\* with at least one false cell among their 8 neighbours inside the grid; a
\* true cell whose in-grid neighbours are all true, also one on the outermost
\* row or column, is not a boundary cell, and no false cell is one.
C12_BoundaryIsFalseNeighbour ==
    Extracted =>
        \A k \in DOMAIN binary_masks :
            NonDegenerate(binary_masks[k]) =>
                Boundary(binary_masks[k]) =
                    {c \in TrueCells(binary_masks[k]) :
                        \E d \in Neighbours8(binary_masks[k].shape, c) :
                            ~binary_masks[k].data[d]}

\* the labelled boundary components of the mask of level index k
Components(k) ==
    IF IsDegenerate(binary_masks[k]) THEN <<>> ELSE Label(Boundary(binary_masks[k]))

\* real-world point of grid index c on the reference surface
PointOf(ref, c) == <<ref.xori + c[1] * ref.xinc, ref.yori + c[2] * ref.yinc>>

PointsOf(ref, comp) == {PointOf(ref, c) : c \in comp}

PointSet(contour) == {contour[q] : q \in DOMAIN contour}

\* C13: a connected component of boundary cells with fewer than 3 cells gives
\* no contour and no failure; a component with 3 or more cells gives exactly
\* one contour.
C13_SmallComponentsDropped ==
    Extracted =>
        /\ error = "none"
        /\ \A k \in DOMAIN found :
              LET comps == Components(k)
                  ref   == surfaces[1]
              IN  /\ \A n \in DOMAIN comps :
                        LET made == {m \in DOMAIN found[k] :
                                        PointSet(found[k][m]) \cap PointsOf(ref, comps[n]) # {}}
                        IN  IF Cardinality(comps[n]) < 3
                            THEN made = {}
                            ELSE /\ Cardinality(made) = 1
                                 /\ \A m \in made :
                                       PointSet(found[k][m]) = PointsOf(ref, comps[n])
                  /\ Len(found[k]) =
                        Cardinality({n \in DOMAIN comps : Cardinality(comps[n]) >= 3})

\* one mask with a component of two cells that is dropped, another mask with a
\* component that is kept
C13_Witness ==
    /\ pc = "done"
    /\ ~MISSING_DEPENDENCIES
    /\ error = "none"
    /\ \E k \in DOMAIN found :
          /\ found[k] = <<>>
          /\ \E n \in DOMAIN Components(k) : Cardinality(Components(k)[n]) = 2
    /\ \E k \in DOMAIN found :
          /\ Len(found[k]) = 1
          /\ \E n \in DOMAIN Components(k) : Cardinality(Components(k)[n]) >= 3

\* C14: every contour point is the point of a boundary cell <<i, j>>, with
\* x = xori + i * xinc and y = yori + j * yinc of the first surface, and
\* <<i, j>> lies in 0 .. ncol - 1, 0 .. nrow - 1.
C14_PointsOnReferenceGrid ==
    Extracted =>
        \A k \in DOMAIN found :
            \A m \in DOMAIN found[k] :
                \A q \in DOMAIN found[k][m] :
                    \E i \in 0 .. surfaces[1].ncol - 1, j \in 0 .. surfaces[1].nrow - 1 :
                        /\ <<i, j>> \in Boundary(binary_masks[k])
                        /\ found[k][m][q][1] = surfaces[1].xori + i * surfaces[1].xinc
                        /\ found[k][m][q][2] = surfaces[1].yori + j * surfaces[1].yinc

\* a contour on a reference surface whose origin and increments differ from
\* those of a later surface of the list
C14_Witness ==
    /\ pc = "done"
    /\ ~MISSING_DEPENDENCIES
    /\ N >= 2
    /\ surfaces[1].xori # surfaces[2].xori
    /\ surfaces[1].xinc # surfaces[1].yinc
    /\ \E k \in DOMAIN found :
          /\ found[k] # <<>>
          /\ <<surfaces[1].xori + surfaces[1].xinc, surfaces[1].yori>>
                \in PointSet(found[k][1])

\* C15: every contour that _find_contours returns is closed: its last point
\* equals its first point.
C15_Closed ==
    Extracted =>
        \A k \in DOMAIN found :
            \A m \in DOMAIN found[k] :
                /\ Len(found[k][m]) >= 2
                /\ found[k][m][Len(found[k][m])] = found[k][m][1]

\* a closed contour around at least three distinct cells
C15_Witness ==
    /\ pc = "done"
    /\ ~MISSING_DEPENDENCIES
    /\ \E k \in DOMAIN found :
          \E m \in DOMAIN found[k] :
              /\ Cardinality(PointSet(found[k][m])) >= 3
              /\ found[k][m][Len(found[k][m])] = found[k][m][1]

\* number of contours of the levels with index 1 .. k
RECURSIVE ContoursUpTo(_)
ContoursUpTo(k) == IF k = 0 THEN 0 ELSE ContoursUpTo(k - 1) + Len(contours[k])

Returned == ~MISSING_DEPENDENCIES /\ pc = "done"

Present(s) == {c \in DOMAIN s.values : ValueExceeds(s, c, threshold)}

\* S is a block of 2 x 2 cells that touches no edge of the grid of surface s
IsInnerBlock2x2(S, s) ==
    \E i \in 1 .. s.ncol - 3, j \in 1 .. s.nrow - 3 :
        S = {<<i, j>>, <<i + 1, j>>, <<i, j + 1>>, <<i + 1, j + 1>>}

\* three or more realizations with one presence mask, a 2 x 2 block away from
\* the grid edge, and no smoothing
ScenarioA ==
    /\ N >= 3
    /\ smoothing = 0
    /\ \A k \in 1 .. N : surfaces[k] = surfaces[1]
    /\ IsInnerBlock2x2(Present(surfaces[1]), surfaces[1])

\* C17: for N >= 3 realizations with the same presence mask, a 2 x 2 block
\* away from the grid edge, and smoothing 0, the count is N on the block and 0
\* elsewhere, the masks of the three levels are identical, and each level has
\* exactly one contour, whose points are the 4 cells of the block plus the
\* repeated closing point.
C17_ScenarioA ==
    LET ref   == surfaces[1]
        block == Present(ref)
    IN  /\ (Truncated /\ ScenarioA) =>
              \A c \in Cells(plume_count.shape) :
                  plume_count.data[c] = (IF c \in block THEN FieldScale * N ELSE 0)
        /\ (Extracted /\ ScenarioA) =>
              /\ DOMAIN masks = 1 .. 3
              /\ \A k \in 1 .. 3 :
                    /\ TrueCells(binary_masks[k]) = block
                    /\ masks[k] = masks[1]
                    /\ Len(found[k]) = 1
                    /\ Len(found[k][1]) = 5
                    /\ PointSet(found[k][1]) = PointsOf(ref, block)
                    /\ found[k][1][5] = found[k][1][1]
                    /\ Len(contours[k]) = 1
                    /\ Len(contours[k][1]) = 5
                    /\ PointSet(contours[k][1]) = PointsOf(ref, block)
        /\ (Returned /\ ScenarioA) => Len(result) = 3

\* the block (1..2, 1..2) of a 4 x 4 grid, with more than three realizations
C17_Witness ==
    /\ Returned
    /\ ScenarioA
    /\ N > 3
    /\ ShapeOf(surfaces[1]) = <<4, 4>>
    /\ Present(surfaces[1]) = {<<1, 1>>, <<2, 1>>, <<1, 2>>, <<2, 2>>}
    /\ Len(result) = 3

\* no cell of any input surface exceeds the threshold
NoneExceeds ==
    \A k \in 1 .. N : \A c \in DOMAIN surfaces[k].values :
        ~ValueExceeds(surfaces[k], c, threshold)

\* the count field is zero everywhere
ZeroCount == \A c \in Cells(plume_count.shape) : plume_count.data[c] = 0

\* C18: when no cell of any input surface exceeds the threshold, so that the
\* count field is all zero, plume_polygons returns no feature at any level,
\* for every N >= 1 and every smoothing.
C18_EmptyPlume ==
    (Returned /\ N >= 1 /\ NoneExceeds /\ ZeroCount) =>
        /\ result = <<>>
        /\ \A k \in DOMAIN p_levels : found[k] = <<>> /\ contours[k] = <<>>

\* smoothing is on, and the inputs hold positive values below the threshold
C18_Witness ==
    /\ Returned
    /\ N >= 2
    /\ smoothing > 0
    /\ NoneExceeds
    /\ ZeroCount
    /\ \E k \in 1 .. N : \E c \in DOMAIN surfaces[k].values :
          ~surfaces[k].values[c].nan /\ surfaces[k].values[c].v > 0
    /\ DOMAIN found = 1 .. Len(p_levels)
    /\ result = <<>>

\* S is a full rectangle of cells, at least 2 cells wide and 2 cells high
IsWideBlock(S) ==
    /\ S # {}
    /\ LET i0 == CHOOSE i \in {c[1] : c \in S} : \A c \in S : i <= c[1]
           i1 == CHOOSE i \in {c[1] : c \in S} : \A c \in S : i >= c[1]
           j0 == CHOOSE j \in {c[2] : c \in S} : \A c \in S : j <= c[2]
           j1 == CHOOSE j \in {c[2] : c \in S} : \A c \in S : j >= c[2]
       IN  /\ S = (i0 .. i1) \X (j0 .. j1)
           /\ i1 > i0
           /\ j1 > j0

\* the cells of a block that lie on its rim
Rim(S) ==
    {c \in S : \E di \in -1 .. 1, dj \in -1 .. 1 : <<c[1] + di, c[2] + dj>> \notin S}

\* some cell of A and some cell of B share an edge
ShareEdge(A, B) ==
    \E a \in A, b \in B : Abs(a[1] - b[1]) + Abs(a[2] - b[2]) = 1

\* some cell of A and some cell of B share a corner only
TouchAtCorner(A, B) ==
    \E a \in A, b \in B : Abs(a[1] - b[1]) = 1 /\ Abs(a[2] - b[2]) = 1

\* two realizations whose present cells are two disjoint blocks, no smoothing
ScenarioC ==
    /\ N = 2
    /\ smoothing = 0
    /\ IsWideBlock(Present(surfaces[1]))
    /\ IsWideBlock(Present(surfaces[2]))
    /\ Present(surfaces[1]) \cap Present(surfaces[2]) = {}

\* level 0.1 has exactly two contours, one around each block
TwoContours ==
    /\ p_levels[1] = 1
    /\ levels[1] = 2
    /\ Len(found[1]) = 2
    /\ {PointSet(found[1][m]) : m \in 1 .. 2} =
          {PointsOf(surfaces[1], Rim(Present(surfaces[k]))) : k \in 1 .. 2}

\* C19 as stated: two realizations with disjoint blocks, each at least 2 x 2,
\* and smoothing 0 give exactly two contours at level 0.1, one per block, for
\* every placement of the blocks, also when they share an edge or touch at a
\* corner.
C19_AlwaysTwoContours ==
    (Extracted /\ ScenarioC) => TwoContours

\* C19, amended: the two contours are found for every placement in which the
\* blocks share no edge (apart or touching at a corner); blocks that share an
\* edge are one region and give at most one contour.
C19_TwoContoursUnlessEdgeShared ==
    (Extracted /\ ScenarioC) =>
        IF ShareEdge(Present(surfaces[1]), Present(surfaces[2]))
        THEN Len(found[1]) <= 1
        ELSE TwoContours

\* two blocks that touch at a corner and are contoured apart
C19_Witness ==
    /\ Returned
    /\ ScenarioC
    /\ ~ShareEdge(Present(surfaces[1]), Present(surfaces[2]))
    /\ TouchAtCorner(Present(surfaces[1]), Present(surfaces[2]))
    /\ TwoContours
    /\ Len(result) = 2

\* the surfaces that count cell c as present; a surface with a single column
\* or row is stretched along that axis
CountedAt(c) ==
    {k \in 1 .. N :
        BinaryCell(surfaces[k].values[<<Min(c[1], surfaces[k].ncol - 1),
                                        Min(c[2], surfaces[k].nrow - 1)>>],
                   threshold) = 1}

\* shape of the unsmoothed count
CountShape ==
    <<CHOOSE m \in {surfaces[k].ncol : k \in 1 .. N} : \A k \in 1 .. N : surfaces[k].ncol <= m,
      CHOOSE n \in {surfaces[k].nrow : k \in 1 .. N} : \A k \in 1 .. N : surfaces[k].nrow <= n>>

\* C20: with sigma = 0 the smoothing step of truncate_surfaces is the
\* identity: the returned field has the shape of the unsmoothed count and
\* equals it at every cell.
C20_ZeroSigmaIsIdentity ==
    (Truncated /\ N >= 1 /\ smoothing = 0) =>
        /\ plume_count.shape = CountShape
        /\ \A c \in Cells(CountShape) :
              plume_count.data[c] = FieldScale * Cardinality(CountedAt(c))

\* a count that differs from cell to cell, returned unsmoothed
C20_Witness ==
    /\ Truncated
    /\ N >= 2
    /\ smoothing = 0
    /\ \E c, d \in Cells(plume_count.shape) :
          /\ plume_count.data[c] = FieldScale * N
          /\ plume_count.data[d] = 0
          /\ Abs(c[1] - d[1]) + Abs(c[2] - d[2]) = 1

\* the labelled components of level index k that are large enough to be kept
KeptComponents(k) ==
    LET Kept(comp) == Cardinality(comp) >= 3
    IN  SelectSeq(Components(k), Kept)

\* C27: the contour of a component of k boundary cells has exactly k + 1
\* points, at least 4; its first k points are the real-world points of the k
\* cells, each once, and none of its points belongs to another cell of the grid.
C27_ContourIsPermutation ==
    Extracted =>
        \A k \in DOMAIN found :
            LET kept == KeptComponents(k)
                ref  == surfaces[1]
            IN  /\ Len(found[k]) = Len(kept)
                /\ \A m \in DOMAIN found[k] :
                      LET contour == found[k][m]
                          n       == Cardinality(kept[m])
                          firstn  == {contour[q] : q \in 1 .. n}
                      IN  /\ Len(contour) = n + 1
                          /\ Len(contour) >= 4
                          /\ firstn = PointsOf(ref, kept[m])
                          /\ Cardinality(firstn) = n
                          /\ PointSet(contour)
                                \cap PointsOf(ref, Cells(ShapeOf(ref)) \ kept[m]) = {}

\* a contour of five or more cells beside another component of the same mask
C27_Witness ==
    /\ Returned
    /\ \E k \in DOMAIN found :
          /\ Len(Components(k)) >= 2
          /\ Len(found[k]) >= 1
          /\ Len(found[k][1]) >= 6

\* the cells of B that are linked to a cell of S through cells of B that
\* share an edge
RECURSIVE EdgeLinked(_, _)
EdgeLinked(S, B) ==
    LET more == {d \in B \ S : \E e \in S : \/ (d[1] = e[1] /\ Abs(d[2] - e[2]) = 1)
                                            \/ (d[2] = e[2] /\ Abs(d[1] - e[1]) = 1)}
    IN  IF more = {} THEN S ELSE EdgeLinked(S \cup more, B)

\* S is a one-cell-wide diagonal run of two or more cells
IsDiagonalRun(S) ==
    /\ Cardinality(S) >= 2
    /\ \E c \in S, d \in {-1, 1} :
          S = {<<c[1] + t, c[2] + d * t>> : t \in 0 .. Cardinality(S) - 1}

\* C28: boundary cells are grouped by edge adjacency only: every component is
\* the set of boundary cells linked to one of its cells through edge-adjacent
\* boundary cells, so cells that touch only at a corner are in different
\* components unless so linked.  A mask that is a one-cell-wide diagonal run
\* is not degenerate and still gives no contour: each cell is a component of
\* size 1.
C28_EdgeAdjacencyOnly ==
    Returned =>
        \A k \in DOMAIN found :
            LET comps == Components(k)
                B     == Boundary(binary_masks[k])
            IN  /\ ~IsDegenerate(binary_masks[k]) =>
                      /\ UNION {comps[n] : n \in DOMAIN comps} = B
                      /\ \A n \in DOMAIN comps :
                            \E c \in comps[n] : comps[n] = EdgeLinked({c}, B)
                /\ IsDiagonalRun(TrueCells(binary_masks[k])) =>
                      /\ ~IsDegenerate(binary_masks[k])
                      /\ Len(comps) = Cardinality(TrueCells(binary_masks[k]))
                      /\ \A n \in DOMAIN comps : Cardinality(comps[n]) = 1
                      /\ found[k] = <<>>

\* a diagonal run of three or more cells that gives no contour
C28_Witness ==
    /\ Returned
    /\ \E k \in DOMAIN found :
          /\ IsDiagonalRun(TrueCells(binary_masks[k]))
          /\ Cardinality(TrueCells(binary_masks[k])) >= 3
          /\ Len(Components(k)) >= 3
          /\ found[k] = <<>>
    /\ result = <<>>

\* C23: truncate_surfaces and plume_polygons have no side effect on their
\* inputs: no step of a call changes the input list, the values of a surface
\* or its missing-value mask.
C23_InputsUntouched ==
    [][/\ surfaces' = surfaces
       /\ threshold' = threshold
       /\ smoothing' = smoothing]_vars

\* a call that has returned, with missing cells (NaN and masked) among its
\* inputs and a field in which they were counted as 0
C23_Witness ==
    /\ Returned
    /\ \E k \in 1 .. N : \E c, d \in DOMAIN surfaces[k].values :
          /\ surfaces[k].values[c].nan
          /\ surfaces[k].values[d].mask
          /\ surfaces[k].values[d].v # 0
    /\ \E c \in Cells(plume_count.shape) : plume_count.data[c] = 0

-----------------------------------------------------------------------------
(* _trace_contour_boundary, lines 153-204.  It is called by nothing in the  *)
(* module; a call of it is a run of the machine below, one action per pass  *)
(* of the while loop.  Distances are compared squared.                      *)

\* bounds: side of the square grid the cells come from, most cells of a call
TraceSide == 3

MaxCells == 5

\* the local names of plume_polygons are unset
PlumeLocalsIdle ==
    /\ surfaces = <<>>
    /\ threshold = 0
    /\ smoothing = 0
    /\ pc = "idle"
    /\ plume_count = Scalar(0)
    /\ p_levels = <<>>
    /\ levels = <<>>
    /\ masks = <<>>
    /\ binary_masks = <<>>
    /\ found = <<>>
    /\ contours = <<>>
    /\ result = <<>>
    /\ error = "none"

\* no call of plume_polygons is under way
PlumeIdle ==
    /\ MISSING_DEPENDENCIES = FALSE
    /\ PlumeLocalsIdle

\* geometry behind x_mesh and y_mesh
TraceRef ==
    [ncol |-> TraceSide, nrow |-> TraceSide, xori |-> 10, yori |-> 20, xinc |-> 2, yinc |-> 3]

\* the cells of a component as np.where gives them: distinct, in scan order
TraceInputs ==
    {SortedCells(S) : S \in {T \in SUBSET Cells(<<TraceSide, TraceSide>>) :
                                Cardinality(T) <= MaxCells}}

\* lines 162-172
TracePoints(cs, x_mesh, y_mesh) ==
    [k \in 1 .. Len(cs) |->
        LET i_safe == Max(0, Min(cs[k][1], x_mesh.shape[1] - 1))
            j_safe == Max(0, Min(cs[k][2], x_mesh.shape[2] - 1))
            x == IF x_mesh.shape[2] > j_safe THEN x_mesh.data[<<i_safe, j_safe>>]
                 ELSE x_mesh.data[<<i_safe, 0>>]
            y == IF y_mesh.shape[1] > i_safe THEN y_mesh.data[<<i_safe, j_safe>>]
                 ELSE y_mesh.data[<<0, j_safe>>]
        IN  <<x, y>>]

\* np.argmin(points[:, 0]): the first index of the smallest x (from 1 here)
ArgMinX(pts) ==
    CHOOSE k \in 1 .. Len(pts) :
        /\ \A l \in 1 .. Len(pts) : pts[k][1] <= pts[l][1]
        /\ \A l \in 1 .. (k - 1) : pts[l][1] > pts[k][1]

\* mutation: the remaining point that was listed last is taken
LastPos(pts, rem, cur) == Len(rem)

\* lines 190-191: position in remaining_indices of the nearest point, the
\* first one on a tie
NearestPos(pts, rem, cur) ==
    CHOOSE q \in 1 .. Len(rem) :
        /\ \A r \in 1 .. Len(rem) : SqDist(pts[rem[q]], cur) <= SqDist(pts[rem[r]], cur)
        /\ \A r \in 1 .. (q - 1) : SqDist(pts[rem[r]], cur) > SqDist(pts[rem[q]], cur)

\* list.remove of the element at position q
RemoveAt(seq, q) == [r \in 1 .. (Len(seq) - 1) |-> IF r < q THEN seq[r] ELSE seq[r + 1]]

\* mutation: the cap is reached one point early
CapReachedEarly(ordered, pts) == Len(ordered) >= Len(pts)

\* line 197: len(ordered_points) > len(points)
CapReached(ordered, pts) == Len(ordered) > Len(pts)

InitTrace ==
    /\ PlumeIdle /\ HandlerIdle /\ MenuIdle /\ CallsIdle /\ SimplifyIdle
    /\ coords \in TraceInputs
    /\ points = <<>>
    /\ ordered_points = <<>>
    /\ remaining_indices = <<>>
    /\ trace_pc = "call"
    /\ iterations = 0
    /\ stop_reason = "none"
    /\ traced = <<>>

\* lines 158-185: the early returns and the start of the walk
TraceStart ==
    /\ trace_pc = "call"
    /\ IF Len(coords) = 0
       THEN /\ traced' = <<>>
            /\ trace_pc' = "done"
            /\ UNCHANGED <<points, ordered_points, remaining_indices>>
       ELSE LET pts == TracePoints(coords, XMesh(TraceRef), YMesh(TraceRef))
                start_idx == ArgMinX(pts)
            IN  /\ points' = pts
                /\ IF Len(pts) < 3
                   THEN /\ traced' = pts
                        /\ trace_pc' = "done"
                        /\ UNCHANGED <<ordered_points, remaining_indices>>
                   ELSE /\ ordered_points' = <<pts[start_idx]>>
                        /\ remaining_indices' =
                               RemoveAt([k \in 1 .. Len(pts) |-> k], start_idx)
                        /\ trace_pc' = "loop"
                        /\ traced' = traced
    /\ UNCHANGED <<coords, iterations, stop_reason, trace_rest>>

\* lines 188-198: one pass through the body of the while loop
TraceIterate ==
    /\ trace_pc = "loop"
    /\ remaining_indices # <<>>
    /\ LET current_point == ordered_points[Len(ordered_points)]
           q == NearestPos(points, remaining_indices, current_point)
           nearest_idx == remaining_indices[q]
       IN  /\ ordered_points' = Append(ordered_points, points[nearest_idx])
           /\ remaining_indices' = RemoveAt(remaining_indices, q)
           /\ iterations' = iterations + 1
           /\ IF CapReached(Append(ordered_points, points[nearest_idx]), points)
              THEN /\ stop_reason' = "cap"
                   /\ trace_pc' = "close"
              ELSE UNCHANGED <<stop_reason, trace_pc>>
    /\ UNCHANGED <<coords, points, traced, trace_rest>>

\* line 188: the loop condition fails, no index is left
TraceExhausted ==
    /\ trace_pc = "loop"
    /\ remaining_indices = <<>>
    /\ stop_reason' = "exhausted"
    /\ trace_pc' = "close"
    /\ UNCHANGED <<coords, points, ordered_points, remaining_indices, iterations,
                   traced, trace_rest>>

\* lines 200-204
TraceClose ==
    /\ trace_pc = "close"
    /\ traced' = (IF Len(ordered_points) > 2
                  THEN Append(ordered_points, ordered_points[1])
                  ELSE ordered_points)
    /\ trace_pc' = "done"
    /\ UNCHANGED <<coords, points, ordered_points, remaining_indices, iterations,
                   stop_reason, trace_rest>>

NextTrace ==
    \/ TraceStart
    \/ TraceIterate
    \/ TraceExhausted
    \/ TraceClose

SpecTrace == InitTrace /\ [][NextTrace]_vars

\* the scheduler keeps running the function until it returns
SpecTraceFair == SpecTrace /\ WF_vars(NextTrace)

\* C25: for n >= 3 points the while loop ends after exactly n - 1 passes,
\* because no index is left; the cap len(ordered_points) > len(points) never
\* ends it, so all n points are in ordered_points, and the call returns.
C25_LoopTerminates ==
    /\ [](stop_reason # "cap")
    /\ [](trace_pc = "loop" =>
             /\ iterations + Len(remaining_indices) = Len(points) - 1
             /\ Len(ordered_points) = iterations + 1)
    /\ []((trace_pc \in {"close", "done"} /\ Len(coords) >= 3) =>
             /\ stop_reason = "exhausted"
             /\ iterations = Len(coords) - 1
             /\ Len(ordered_points) = Len(coords))
    /\ <>(trace_pc = "done")

\* a walk over four or more points that has returned
C25_Witness ==
    /\ trace_pc = "done"
    /\ Len(coords) >= 4
    /\ iterations = Len(coords) - 1
    /\ stop_reason = "exhausted"

\* the points of the input cells, in input order
InputPoints == [k \in 1 .. Len(coords) |-> PointOf(TraceRef, coords[k])]

\* C26: for n >= 3 cells _trace_contour_boundary returns n + 1 points: the
\* first has the smallest x, each next one is a nearest point among those not
\* yet visited, the first n are the input points, each once, and the last
\* repeats the first.  For fewer than 3 cells the points are returned in input
\* order, without a closing point.
C26_NearestNeighbourChain ==
    trace_pc = "done" =>
        LET n == Len(coords)
            visited(q) == {traced[r] : r \in 1 .. q}
            all == PointSet(InputPoints)
        IN  IF n < 3
            THEN traced = InputPoints
            ELSE /\ Len(traced) = n + 1
                 /\ \A p \in all : traced[1][1] <= p[1]
                 /\ \A q \in 2 .. n :
                       /\ traced[q] \in all \ visited(q - 1)
                       /\ \A p \in all \ visited(q - 1) :
                             SqDist(traced[q], traced[q - 1]) <= SqDist(p, traced[q - 1])
                 /\ visited(n) = all
                 /\ Cardinality(all) = n
                 /\ traced[n + 1] = traced[1]

\* a chain in which the nearest point is not the next one in input order
C26_Witness ==
    /\ trace_pc = "done"
    /\ Len(coords) >= 4
    /\ Len(traced) = Len(coords) + 1
    /\ traced[Len(traced)] = traced[1]
    /\ \E q \in 1 .. Len(coords) : traced[q] # InputPoints[q]

-----------------------------------------------------------------------------
(* PolygonHandler (polygon_handler.py): the url of a boundary polygon.      *)
(* None is the string "None"; attributes are other strings.  The server is  *)
(* outside the handler: a call of encode_partial_url is recorded in         *)
(* server_calls and its url is an injective encoding of its arguments.      *)

\* bound: longest realization list of a call
MaxRealizations == 3

RealizationIds == 0 .. MaxRealizations

RECURSIVE ListsUpTo(_, _)
ListsUpTo(S, n) ==
    IF n = 0 THEN {<<>>}
    ELSE LET shorter == ListsUpTo(S, n - 1)
         IN  shorter \cup {Append(l, x) : l \in shorter, x \in S}

RealizationLists == ListsUpTo(RealizationIds, MaxRealizations)

\* boundary_options["hazardous_attribute"], boundary_options["containment_attribute"]
BoundaryAttributes == {"None", "hazardous", "containment"}

\* self._provider.provider_id()
provider_id == "polygons"

\* PolygonsAddress(attribute=attribute, name=attribute, realization=realization[-1])
PolygonsAddressLast(attribute, real) ==
    [attribute |-> attribute, name |-> attribute, realization |-> real[Len(real)]]

\* lines 45-49
PolygonsAddress(attribute, real) ==
    [attribute |-> attribute, name |-> attribute, realization |-> real[1]]

\* the call of lines 50-53, as the server sees it
encode_partial_url(provider, polygons_address) == <<"url", provider, polygons_address>>

InitHandler ==
    /\ PlumeIdle /\ TraceIdle /\ MenuIdle /\ CallsIdle /\ SimplifyIdle
    /\ hazardous_attribute \in BoundaryAttributes
    /\ containment_attribute \in BoundaryAttributes
    /\ realization \in RealizationLists
    /\ server_calls = <<>>
    /\ poly_url = "None"
    /\ handler_pc = "call"

\* lines 35-53
_extract_polygon_url(attribute) ==
    IF attribute = "None"
    THEN /\ poly_url' = "None"
         /\ UNCHANGED server_calls
    ELSE IF Len(realization) = 0
    THEN /\ poly_url' = "None"
         /\ UNCHANGED server_calls
    ELSE LET address == PolygonsAddress(attribute, realization)
         IN  /\ server_calls' = Append(server_calls, <<provider_id, address>>)
             /\ poly_url' = encode_partial_url(provider_id, address)

\* lines 29-30
extract_hazardous_poly_url ==
    /\ handler_pc = "call"
    /\ _extract_polygon_url(hazardous_attribute)
    /\ handler_pc' = "hazardous"
    /\ UNCHANGED <<hazardous_attribute, containment_attribute, realization, handler_rest>>

\* lines 32-33
extract_containment_poly_url ==
    /\ handler_pc = "call"
    /\ _extract_polygon_url(containment_attribute)
    /\ handler_pc' = "containment"
    /\ UNCHANGED <<hazardous_attribute, containment_attribute, realization, handler_rest>>

NextHandler ==
    \/ extract_hazardous_poly_url
    \/ extract_containment_poly_url

SpecHandler == InitHandler /\ [][NextHandler]_vars

\* the attribute the returned method read
AttributeUsed ==
    IF handler_pc = "hazardous" THEN hazardous_attribute ELSE containment_attribute

\* C29: a call returns None and leaves the server uncalled when the attribute
\* is None or the realization list is empty; otherwise it calls the server
\* once and returns the server's url for the address whose attribute and name
\* are the attribute and whose realization is the first element of the list,
\* whatever the later elements are.
C29_FirstRealizationUrl ==
    handler_pc \in {"hazardous", "containment"} =>
        IF AttributeUsed = "None" \/ realization = <<>>
        THEN /\ poly_url = "None"
             /\ server_calls = <<>>
        ELSE LET first == [attribute |-> AttributeUsed, name |-> AttributeUsed,
                           realization |-> Head(realization)]
             IN  /\ server_calls = << <<provider_id, first>> >>
                 /\ poly_url = <<"url", provider_id, first>>

\* a url was returned for a list whose later elements differ from its first
C29_Witness ==
    /\ handler_pc = "hazardous"
    /\ hazardous_attribute # "None"
    /\ Len(realization) = MaxRealizations
    /\ realization[Len(realization)] # realization[1]
    /\ poly_url # "None"
    /\ Len(server_calls) = 1

-----------------------------------------------------------------------------
(* The colour-by and mark-by dropdowns of the graph settings (settings.py). *)
(* An option is its value; None is the string "None".  A selection sets the *)
(* value of a dropdown to one of its options, and the callback              *)
(* organize_color_and_mark_menus then runs on the two values.  The five     *)
(* styles it also returns (_make_styles) are a function of the two values   *)
(* and of the content and feed nothing back; they are left out.             *)

Contents ==
    [zones : BOOLEAN, regions : BOOLEAN, plume_groups : BOOLEAN]

\* lines 768-778, one list for both dropdowns after its first entry
CategoryOptions(c) ==
    (IF c.zones THEN <<"zone">> ELSE <<>>)
    \o (IF c.regions THEN <<"region">> ELSE <<>>)
    \o (IF c.plume_groups THEN <<"plume_group">> ELSE <<>>)

\* lines 767-778: color_options
ColorOptions(c) == <<"containment">> \o CategoryOptions(c)

\* lines 768-778: mark_options of the layout
LayoutMarkOptions(c) == <<"phase">> \o CategoryOptions(c)

Values(options) == {options[k] : k \in DOMAIN options}

\* lines 419-432
MarkOptions(c, color) ==
    <<"phase", "none">>
    \o (IF color = "containment" THEN CategoryOptions(c) ELSE <<>>)
    \o (IF color \in {"zone", "region", "plume_group"} THEN <<"containment">> ELSE <<>>)

\* lines 433-439
MarkChoice(color, mark) ==
    LET m == IF mark = "None" \/ mark = color THEN "phase" ELSE mark
    IN  IF m \in {"zone", "region"} /\ color \in {"zone", "region"}
        THEN "phase"
        ELSE m

\* lines 753-834: the dropdowns as laid out; the callback runs once on load
InitMenu ==
    /\ PlumeIdle /\ TraceIdle /\ HandlerIdle /\ CallsIdle /\ SimplifyIdle
    /\ content \in Contents
    /\ color_choice = "containment"
    /\ mark_choice = "phase"
    /\ mark_options = LayoutMarkOptions(content)
    /\ menu_pc = "changed"

\* the user picks another colour
SelectColor ==
    /\ menu_pc = "shown"
    /\ \E c \in Values(ColorOptions(content)) \ {color_choice} :
           color_choice' = c
    /\ menu_pc' = "changed"
    /\ UNCHANGED <<content, mark_choice, mark_options, menu_rest>>

\* the user picks another mark
SelectMark ==
    /\ menu_pc = "shown"
    /\ \E m \in Values(mark_options) \ {mark_choice} :
           mark_choice' = m
    /\ menu_pc' = "changed"
    /\ UNCHANGED <<content, color_choice, mark_options, menu_rest>>

\* lines 415-448
organize_color_and_mark_menus ==
    /\ menu_pc = "changed"
    /\ mark_options' = MarkOptions(content, color_choice)
    /\ mark_choice' = MarkChoice(color_choice, mark_choice)
    /\ menu_pc' = "shown"
    /\ UNCHANGED <<content, color_choice, menu_rest>>

NextMenu ==
    \/ SelectColor
    \/ SelectMark
    \/ organize_color_and_mark_menus

SpecMenu == InitMenu /\ [][NextMenu]_vars

\* C30: after the callback has processed a selection, the mark-by value is
\* one of the mark-by options, differs from the colour-by value, and the two
\* are not both among zone and region.
C30_MarkAmongOptions ==
    menu_pc = "shown" =>
        /\ mark_choice \in Values(mark_options)
        /\ mark_choice # color_choice
        /\ ~(color_choice \in {"zone", "region"} /\ mark_choice \in {"zone", "region"})

-----------------------------------------------------------------------------
(* Two invocations of plume_polygons at once.  The module has one global,   *)
(* MISSING_DEPENDENCIES, bound at import (lines 8-12); every other name of  *)
(* plume_polygons is local to the invocation.  An invocation advances one   *)
(* stage at a time, the stages being those of the machine above, and the    *)
(* other invocation may advance between any two of them.                    *)

Invocations == {1, 2}

\* realizations with a square block in the corner of a square grid
CornerBlocks ==
    {BlockOf(<<GridRows, GridRows>>, <<0, i1, 0, i1>>) : i1 \in 1 .. GridRows - 1}

CallInputs ==
    {[surfaces |-> [k \in 1 .. n |-> b], threshold |-> 0, smoothing |-> 0] :
         b \in CornerBlocks, n \in {1, 2}}
    \cup {[surfaces |-> <<BlockOf(<<GridRows, GridRows>>, <<0, 1, 0, 1>>)>>,
           threshold |-> 1, smoothing |-> 0],
          [surfaces |-> <<BlockOf(<<GridRows, GridRows>>, <<0, 1, 0, 1>>),
                          BlockOf(<<GridRows + 1, GridRows>>, <<0, 1, 0, 1>>)>>,
           threshold |-> 0, smoothing |-> 0]}

\* the local names of an invocation that has not started
NewFrame ==
    [pc |-> "call", plume_count |-> Scalar(0), p_levels |-> <<>>, levels |-> <<>>,
     contours |-> <<>>, result |-> <<>>, error |-> "none"]

Finished(f) == f.pc \in {"done", "raised"}

\* one stage of plume_polygons on the arguments a and the local names f
FrameStep(a, f, flag) ==
    CASE f.pc = "call" ->
             IF EarlyReturn(flag)
             THEN [f EXCEPT !.result = <<>>, !.pc = "done"]
             ELSE LET r == truncate_surfaces(a.surfaces, a.threshold, a.smoothing)
                  IN  IF r.ok
                      THEN [f EXCEPT !.plume_count = r.arr, !.pc = "levels"]
                      ELSE [f EXCEPT !.error = "ValueError", !.pc = "raised"]
      [] f.pc = "levels" ->
             [f EXCEPT !.p_levels = PLevels(Len(a.surfaces)),
                       !.levels = Levels(PLevels(Len(a.surfaces)), Len(a.surfaces)),
                       !.pc = "extract"]
      [] f.pc = "extract" ->
             IF \/ Len(a.surfaces) = 0
                \/ a.surfaces[1].ncol < 2
                \/ a.surfaces[1].nrow < 2
             THEN [f EXCEPT !.error = "IndexError", !.pc = "raised"]
             ELSE LET ref == a.surfaces[1]
                  IN  [f EXCEPT
                          !.contours =
                              [k \in DOMAIN f.levels |->
                                  LevelPolys(_find_contours(XMesh(ref), YMesh(ref),
                                                 LevelMask(f.plume_count, f.levels[k])),
                                             SimplifyDist2(ref))],
                          !.pc = "assemble"]
      [] f.pc = "assemble" ->
             [f EXCEPT !.result = Features(f.p_levels, f.contours, 1), !.pc = "done"]
      [] OTHER -> f

\* every invocation keeps its local names in the frame of invocation 1
SharedFrame(q) == 1

\* the frame that holds the local names of invocation q: its own
FrameOf(q) == q

InitCalls ==
    /\ MISSING_DEPENDENCIES \in BOOLEAN
    /\ PlumeLocalsIdle /\ TraceIdle /\ HandlerIdle /\ MenuIdle /\ SimplifyIdle
    /\ call_args \in [Invocations -> CallInputs]
    /\ frames = [q \in Invocations |-> NewFrame]
    /\ interleaved = FALSE

\* invocation q runs its next stage
InvocationStep(q) ==
    /\ ~Finished(frames[FrameOf(q)])
    /\ frames' = [frames EXCEPT ![FrameOf(q)] =
                      FrameStep(call_args[q], frames[FrameOf(q)], MISSING_DEPENDENCIES)]
    /\ interleaved' = (interleaved \/ \E o \in Invocations \ {q} :
                                          frames[o].pc \notin {"call", "done", "raised"})
    /\ UNCHANGED <<call_args, plume_vars, trace_vars, handler_vars, menu_vars,
                   simplify_vars>>

NextCalls == \E q \in Invocations : InvocationStep(q)

SpecCalls == InitCalls /\ [][NextCalls]_vars

RECURSIVE RunAlone(_, _, _)
RunAlone(a, f, flag) ==
    IF Finished(f) THEN f ELSE RunAlone(a, FrameStep(a, f, flag), flag)

\* what an invocation hands back: the collection returned or the exception raised
Outcome(f) == <<f.pc, f.result, f.error>>

\* C24: whatever the interleaving of two invocations, each that has finished
\* hands back what a call with its arguments hands back when it runs alone,
\* and MISSING_DEPENDENCIES is never written.
C24_InvocationsIndependent ==
    /\ [](\A q \in Invocations :
             Finished(frames[q]) =>
                 Outcome(frames[q])
                     = Outcome(RunAlone(call_args[q], NewFrame, MISSING_DEPENDENCIES)))
    /\ [][MISSING_DEPENDENCIES' = MISSING_DEPENDENCIES]_vars

\* two invocations on different inputs have returned different, non-empty
\* collections after their stages were interleaved
C24_Witness ==
    /\ interleaved
    /\ call_args[1] # call_args[2]
    /\ \A q \in Invocations : frames[q].pc = "done" /\ frames[q].result # <<>>
    /\ frames[1].result # frames[2].result

-----------------------------------------------------------------------------
(* _simplify on its own: a line is simplified, and the outcome is           *)
(* simplified again with the same tolerance.  The lines have their points   *)
(* on a small grid, no point twice, and are open or closed by a return to   *)
(* the first point.                                                         *)

\* bound: most distinct points of a line
MaxPoints == 5

\* the points a line is drawn from
GridPoints == {<<x, y>> : x, y \in 0 .. 2}

\* where a line starts: a corner, the middle of a side, the centre; the
\* lines from the other points are mirror images of these
StartPoints == {<<0, 0>>, <<1, 0>>, <<1, 1>>}

\* tolerances 0 and 1.5, squared
SimplifyDists == {<<0, 1>>, <<9, 4>>}

IsInjective(l) == \A a, b \in DOMAIN l : a # b => l[a] # l[b]

InitSimplify ==
    /\ PlumeIdle /\ TraceIdle /\ HandlerIdle /\ MenuIdle /\ CallsIdle
    /\ \E n \in 2 .. MaxPoints :
          \E l \in [1 .. n -> GridPoints] :
              /\ IsInjective(l)
              /\ l[1] \in StartPoints
              /\ line \in {l, Append(l, l[1])}
    /\ simplify_dist \in SimplifyDists
    /\ simplified = <<>>
    /\ resimplified = <<>>
    /\ simplify_pc = "call"

\* _simplify(line, simplify_dist)
SimplifyOnce ==
    /\ simplify_pc = "call"
    /\ simplified' = _simplify(line, simplify_dist)
    /\ simplify_pc' = "once"
    /\ UNCHANGED <<line, simplify_dist, resimplified, plume_vars, trace_vars,
                   handler_vars, menu_vars, calls_vars>>

\* _simplify(_simplify(line, simplify_dist), simplify_dist)
SimplifyAgain ==
    /\ simplify_pc = "once"
    /\ resimplified' = _simplify(simplified, simplify_dist)
    /\ simplify_pc' = "twice"
    /\ UNCHANGED <<line, simplify_dist, simplified, plume_vars, trace_vars,
                   handler_vars, menu_vars, calls_vars>>

NextSimplify ==
    \/ SimplifyOnce
    \/ SimplifyAgain

SpecSimplify == InitSimplify /\ [][NextSimplify]_vars

\* the positions of l at which the points of sub are found, in order
RECURSIVE IsSubsequence(_, _)
IsSubsequence(sub, l) ==
    IF sub = <<>> THEN TRUE
    ELSE IF l = <<>> THEN FALSE
    ELSE IF Head(sub) = Head(l) THEN IsSubsequence(Tail(sub), Tail(l))
    ELSE IsSubsequence(sub, Tail(l))

\* C21: the simplified line has at least 2 points, begins and ends with the
\* first and the last point of the line, and consists of points of the line
\* in the order of the line; so a closed line stays closed.
C21_EndpointsKept ==
    simplify_pc \in {"once", "twice"} =>
        /\ Len(simplified) >= 2
        /\ simplified[1] = line[1]
        /\ simplified[Len(simplified)] = line[Len(line)]
        /\ IsSubsequence(simplified, line)
        /\ line[1] = line[Len(line)] => simplified[1] = simplified[Len(simplified)]

\* a closed line has lost points and is still closed
C21_Witness ==
    /\ simplify_pc = "once"
    /\ line[1] = line[Len(line)]
    /\ Len(line) = MaxPoints + 1
    /\ Len(simplified) < Len(line)
    /\ simplify_dist # <<0, 1>>
    /\ simplified[1] = simplified[Len(simplified)]

\* C22: simplifying the simplified line again with the same tolerance gives
\* the simplified line.
C22_Idempotent ==
    simplify_pc = "twice" => resimplified = simplified

====
